---- MODULE Spec2Model ----
(***************************************************************************)
(* Model of scripts/rsp.py: generate_polygon, the Radar Scanning Plot      *)
(* computation (angular scan, per-angle projection, joint normalisation,   *)
(* histogram CDFs, L1 divergence, polygon construction, area, roundness),  *)
(* of scripts/tsne.py: generate_tsne (cached loading, embedding,           *)
(* clustering, selection of the expressing cells), of                      *)
(* scripts/pager.py: PAGER.run_pager (the request payload), and of the     *)
(* calls between the entry points (main.py, sim.py, scripts/download.py,   *)
(* scripts/util.py) and these functions: argument binding and unpacking.   *)
(*                                                                         *)
(* Numbers.  A floating-point value is a record [n, d] standing for n/d    *)
(* in lowest terms: d > 0 is a finite number, 0/0 is NaN, 1/0 is +Inf and  *)
(* -1/0 is -Inf, with the IEEE-754 rules numpy applies to division by      *)
(* zero (a warning and NaN/Inf, never an exception).  Finite arithmetic    *)
(* is exact; rounding error is not modelled.                               *)
(*                                                                         *)
(* Angles are measured in units of pi (np.pi is the number 1, the default  *)
(* theta_bound [0, 2*np.pi] is <<0, 2>>), so an area is in units of pi     *)
(* times a squared radius; ratios, signs and zeros are unaffected.         *)
(***************************************************************************)
EXTENDS Integers, Sequences, FiniteSets, TLC

(* ------------------------------ bounds -------------------------------- *)

\* rsp.py:34 sets resolution = 1000; the model scans with a small resolution.
resolution == 4
\* Largest number of points of an arbitrary input population.
MaxPoints == 3
\* Largest number of points of one copy in a two-copies population.
MaxCopy == 3
\* Coordinates are integers x, y >= 0 with x + y <= MaxCoord.
MaxCoord == 1
\* Largest factor by which a later invocation's coordinates are scaled.
MaxScale == 2
\* Largest number of cells (columns) of a DGE table.
MaxCells == 2

\* Largest number of keyword arguments of a call of run_pager.
MaxKwargs == 2

(* ----------------------- floating-point values ------------------------ *)

AbsInt(x) == IF x < 0 THEN -x ELSE x

SignInt(x) == IF x < 0 THEN -1 ELSE IF x > 0 THEN 1 ELSE 0

RECURSIVE GCD(_, _)
GCD(a, b) == IF b = 0 THEN a ELSE GCD(b, a % b)

\* n/d in lowest terms with d >= 0; n/0 collapses to NaN, +Inf or -Inf.
Rat(n, d) ==
    IF d = 0 THEN [n |-> SignInt(n), d |-> 0]
    ELSE LET s == IF d < 0 THEN -1 ELSE 1
             g == GCD(AbsInt(n), AbsInt(d))
         IN  [n |-> (s * n) \div g, d |-> (s * d) \div g]

Int2F(k) == [n |-> k, d |-> 1]
Zero == Int2F(0)
NaN == [n |-> 0, d |-> 0]

IsNaN(v) == v.d = 0 /\ v.n = 0
IsFinite(v) == v.d > 0
FNeg(a) == [n |-> -a.n, d |-> a.d]

\* a + b over the least common denominator
FAdd(a, b) ==
    IF a.d = 0 /\ b.d = 0
    THEN (IF a.n = b.n THEN a ELSE NaN)        \* inf + inf, inf - inf, NaN
    ELSE IF a.d = 0 THEN a
    ELSE IF b.d = 0 THEN b
    ELSE LET g == GCD(a.d, b.d)
         IN  Rat(a.n * (b.d \div g) + b.n * (a.d \div g), (a.d \div g) * b.d)

FSub(a, b) == FAdd(a, FNeg(b))

\* a * b, cancelling across the two fractions before multiplying
FMul(a, b) ==
    IF a.d = 0 \/ b.d = 0 \/ a.n = 0 \/ b.n = 0
    THEN Rat(SignInt(a.n) * SignInt(b.n), a.d * b.d)   \* inf * 0 is NaN
    ELSE LET g1 == GCD(AbsInt(a.n), b.d)
             g2 == GCD(AbsInt(b.n), a.d)
         IN  Rat((a.n \div g1) * (b.n \div g2), (a.d \div g2) * (b.d \div g1))

\* x/0 is NaN for x = 0 and +-Inf otherwise; inf/inf is NaN; x/inf is 0.
FDiv(a, b) ==
    LET s == IF b.n < 0 THEN -1 ELSE 1
    IN  IF b.d > 0 /\ b.n # 0
        THEN FMul(a, [n |-> s * b.d, d |-> AbsInt(b.n)])
        ELSE Rat(SignInt(a.n) * b.d * s, a.d * AbsInt(b.n))

FAbs(a) == [n |-> AbsInt(a.n), d |-> a.d]

FSq(a) == FMul(a, a)

\* a < b; every comparison with NaN is false
FLt(a, b) ==
    /\ ~IsNaN(a)
    /\ ~IsNaN(b)
    /\ IF a.d > 0 /\ b.d > 0 THEN a.n * b.d < b.n * a.d
       ELSE IF a.d = 0 /\ b.d = 0 THEN a.n < b.n
       ELSE IF a.d = 0 THEN a.n < 0
       ELSE b.n > 0

FLe(a, b) == ~IsNaN(a) /\ ~IsNaN(b) /\ ~FLt(b, a)

FGe0(v) == FLe(Zero, v)

\* floor of a finite value
FFloor(a) == a.n \div a.d

(* ------------------------- sequences of values ------------------------ *)

\* the function f with domain 1..n as an explicit tuple
AsSeq(f) == SubSeq(f, 1, Len(f))

RECURSIVE SumSeq(_)
\* np.sum / np.cumsum accumulate left to right
SumSeq(s) ==
    IF s = <<>> THEN Zero
    ELSE FAdd(SumSeq(SubSeq(s, 1, Len(s) - 1)), s[Len(s)])

RECURSIVE MinSeq(_)
\* ndarray.min() of a non-empty array of finite values
MinSeq(s) ==
    IF Len(s) = 1 THEN s[1]
    ELSE LET m == MinSeq(Tail(s)) IN IF FLt(s[1], m) THEN s[1] ELSE m

RECURSIVE MaxSeq(_)
\* ndarray.max() / np.max of a non-empty array; a NaN entry makes the result NaN
MaxSeq(s) ==
    IF Len(s) = 1 THEN s[1]
    ELSE LET m == MaxSeq(Tail(s))
         IN  IF IsNaN(s[1]) \/ IsNaN(m) THEN NaN
             ELSE IF FLt(m, s[1]) THEN s[1] ELSE m

FMin2(a, b) == IF FLt(b, a) THEN b ELSE a
FMax2(a, b) == IF FLt(a, b) THEN b ELSE a

(* ---------------------------- trigonometry ---------------------------- *)

\* np.pi, in the model's angle unit
NpPi == Int2F(1)

\* x reduced into [0, 2) (one turn), for a finite x
ModTurn(x) == Rat(x.n % (2 * x.d), x.d)

\* Bhaskara's rational approximation of sin on [0, pi], x in units of pi:
\* 16x(1-x) / (5 - 4x(1-x)).  Exact at 0, pi/6, pi/2, 5pi/6, pi.
SinHalfTurn(x) ==
    LET p == x.n * (x.d - x.n)
    IN  Rat(16 * p, 5 * x.d * x.d - 4 * p)

\* np.sin: odd and periodic; sin is 0 exactly at the multiples of pi
NpSin(x) ==
    LET r == ModTurn(x)
    IN  IF FLt(r, NpPi) THEN SinHalfTurn(r)
        ELSE FNeg(SinHalfTurn(FSub(r, NpPi)))

\* np.cos(x) = sin(x + pi/2)
NpCos(x) == NpSin(FAdd(x, Rat(1, 2)))

\* np.linspace(start, stop, num)[i], i = 0..num-1: endpoint=True is the
\* default, so the step is (stop - start)/(num - 1) and the last sample is stop
Linspace(start, stop, num, i) ==
    IF num = 1 THEN start
    ELSE FAdd(start, FMul(Int2F(i), FDiv(FSub(stop, start), Int2F(num - 1))))

(* ------------------------ the scan at one angle ----------------------- *)

\* cos(theta) * pts[:, 0] + sin(theta) * pts[:, 1]
Projection(theta, pts) ==
    LET c == NpCos(theta)
        s == NpSin(theta)
    IN  AsSeq([k \in 1..Len(pts) |->
                 FAdd(FMul(c, Int2F(pts[k][1])), FMul(s, Int2F(pts[k][2])))])

\* MinVal as it would be with the foreground normalised on its own minimum
MinValOfForeground(fp, bp) == MinSeq(fp)

\* min(foreground_projection.min(), background_projection.min())
MinVal(fp, bp) == FMin2(MinSeq(fp), MinSeq(bp))

\* max(foreground_projection.max(), background_projection.max())
MaxVal(fp, bp) == FMax2(MaxSeq(fp), MaxSeq(bp))

\* NormalizeProjection as it would be without the division by the spread
NormalizeProjectionNoDivide(proj, min_val, norm_denom) ==
    AsSeq([k \in 1..Len(proj) |-> FSub(proj[k], min_val)])

\* (projection - min_val) / norm_denom, elementwise; no guard on norm_denom
NormalizeProjection(proj, min_val, norm_denom) ==
    AsSeq([k \in 1..Len(proj) |-> FDiv(FSub(proj[k], min_val), norm_denom)])

\* BinIndex as it would be with the last bin half-open like the others
BinIndexOpenEnd(v, bins) == FFloor(FMul(v, Int2F(bins)))

\* 0-based bin of a value of [0, 1] among `bins` equal bins; 1 falls in the last
BinIndex(v, bins) ==
    LET f == FFloor(FMul(v, Int2F(bins)))
    IN  IF f = bins THEN bins - 1 ELSE f

\* np.histogram(a, bins=bins, range=(0, 1)): values outside [0, 1], NaN
\* included, are counted in no bin
Histogram(a, bins) ==
    LET bin == AsSeq([k \in 1..Len(a) |->
                        IF FLe(Zero, a[k]) /\ FLe(a[k], Int2F(1))
                        THEN BinIndex(a[k], bins) ELSE -1])
    IN  AsSeq([b \in 1..bins |->
                 Cardinality({k \in 1..Len(a) : bin[k] = b - 1})])

RECURSIVE SumInts(_, _)
SumInts(h, b) == IF b = 0 THEN 0 ELSE SumInts(h, b - 1) + h[b]

\* np.cumsum
Cumsum(h) == AsSeq([b \in 1..Len(h) |-> SumInts(h, b)])

\* cdf / cdf[-1], elementwise; no guard on cdf[-1]
NormalizeCdf(cdf) ==
    AsSeq([b \in 1..Len(cdf) |-> FDiv(Int2F(cdf[b]), Int2F(cdf[Len(cdf)]))])

\* the normalised CDF of one population at one angle
CdfOf(proj, min_val, norm_denom) ==
    NormalizeCdf(Cumsum(Histogram(
        NormalizeProjection(proj, min_val, norm_denom), resolution)))

NormDenom(theta, fg, bg) ==
    LET fp == Projection(theta, fg)
        bp == Projection(theta, bg)
    IN  FSub(MaxVal(fp, bp), MinVal(fp, bp))

\* the sum of rsp.py:83-84 as it would be without np.abs
SignedDifferenceSum(fcdf, bcdf) ==
    SumSeq(AsSeq([b \in 1..Len(fcdf) |-> FSub(fcdf[b], bcdf[b])]))

\* np.sum(np.abs(foreground_cdf - background_cdf))
AbsDifferenceSum(fcdf, bcdf) ==
    SumSeq(AsSeq([b \in 1..Len(fcdf) |-> FAbs(FSub(fcdf[b], bcdf[b]))]))

\* the divergence of one angle, for non-empty fg and bg: rsp.py:53-84 as a
\* function of the angle and the two point sets
Difference(theta, fg, bg) ==
    LET fp == Projection(theta, fg)
        bp == Projection(theta, bg)
        min_val == MinVal(fp, bp)
        norm_denom == FSub(MaxVal(fp, bp), min_val)
        fcdf == CdfOf(fp, min_val, norm_denom)
        bcdf == CdfOf(bp, min_val, norm_denom)
    IN  AbsDifferenceSum(fcdf, bcdf)

(* ------------------------------- state -------------------------------- *)

VARIABLES
    coordinates,            \* argument: sequence of <<x, y>>
    is_expressing,          \* argument: sequence of booleans (flattened mask)
    theta_bound,            \* argument: <<theta_start, theta_end>>
    pc,                     \* position in generate_polygon
    foreground_coordinates, \* coordinates[is_expressing]
    background_coordinates, \* coordinates[~is_expressing]
    total_expressing_cells, \* sum(is_expressing)
    differences,            \* the divergence sequence
    scan_thetas,            \* the values the scan loop's theta has taken
    foreground_projection,  \* scan loop local, as last assigned
    background_projection,  \* scan loop local, as last assigned
    foreground_hist_values, \* scan loop local, as last assigned
    background_hist_values, \* scan loop local, as last assigned
    foreground_cdf,         \* scan loop local, as last assigned
    background_cdf,         \* scan loop local, as last assigned
    angles,                 \* polygon vertex angles
    radii,                  \* polygon vertex radii
    polygon_area,
    roundness,
    raised,                 \* the exception that ended the call, or "none"
    result,                 \* <<>> until the call returns, then <<the tuple>>
    earlier,                \* <<>>, or <<the frame of the invocation before>>
    files,                  \* the DGE file and the two cache files beside it
    dge_data,               \* tsne.py module global: <<>> (None) or <<table>>
    tsne_coordinates,       \* tsne.py module global: <<>> (None) or <<rows>>
    cluster_labels,         \* tsne.py module global: <<>> (None) or <<labels>>
    tsne_call,              \* the frame of generate_tsne: arguments, locals, pc
    pager_call,             \* the frame of PAGER.run_pager
    chain                   \* a request to an entry point and its call stack

\* the locals of one iteration of the scan loop
scan_locals == <<foreground_projection, background_projection,
                 foreground_hist_values, background_hist_values,
                 foreground_cdf, background_cdf>>

\* generate_polygon's arguments
inputs == <<coordinates, is_expressing, theta_bound>>

\* the frame of one invocation of generate_polygon
frame == <<inputs, pc, foreground_coordinates, background_coordinates,
           total_expressing_cells, differences, scan_thetas, scan_locals,
           angles, radii, polygon_area, roundness, raised, result>>

\* the state of scripts/tsne.py and of the files it reads and writes
tsne_side == <<files, dge_data, tsne_coordinates, cluster_labels, tsne_call>>

\* what no step of generate_polygon touches
outside == <<earlier, tsne_side, pager_call, chain>>

\* the state of scripts/rsp.py
polygon_side == <<frame, earlier>>

vars == <<frame, outside>>

\* a local that has not been assigned yet
Unbound == [n |-> 0, d |-> -1]

theta_start == theta_bound[1]
theta_end == theta_bound[2]

\* rsp.py:36
angle_step == FDiv(FSub(theta_end, theta_start), Int2F(resolution))

\* the i-th angle (0-based) both loops iterate over
Theta(i) == Linspace(theta_start, theta_end, resolution, i)

(* ----------------------- generate_tsne: its data ---------------------- *)

\* Python's None is <<>>, any other value x is <<x>>
None == <<>>
Some(x) == <<x>>

\* the gene of the tables, and a gene that is in no table
GeneNames == {"Actc1"}
OtherGene == "Sparc"

\* A DGE table as pd.read_csv yields it: the gene names (the index), one row
\* of counts per gene, one column per cell.
DgeTables ==
    {[index |-> <<>>, values |-> <<>>, cells |-> n] : n \in 1..MaxCells}
    \cup
    UNION {{[index |-> <<g>>, values |-> <<row>>, cells |-> n] :
               g \in GeneNames, row \in [1..n -> 0..1]} : n \in 1..MaxCells}

\* the points TSNE().fit_transform places cells at
TsnePoints == {<<0, 0>>, <<1, 0>>}

\* the values of the arguments marker_gene and target_cluster
MarkerGenes == {None} \cup {Some(g) : g \in GeneNames \cup {OtherGene}}
TargetClusters == {None, Some(1), Some(2)}

\* no file, no call of generate_tsne
TsneIdle ==
    /\ files = [dge |-> None, parquet |-> None, csv |-> None]
    /\ dge_data = None
    /\ tsne_coordinates = None
    /\ cluster_labels = None
    /\ tsne_call = [pc |-> "idle", marker_gene |-> None,
                    target_cluster |-> None,
                    filtered_tsne_coordinates |-> None,
                    is_expressing |-> None, fit_predict |-> None,
                    raised |-> "none",
                    result |-> None]

(* ------------------------ PAGER.run_pager: idle ----------------------- *)

\* no call of run_pager
PagerIdle ==
    pager_call = [pc |-> "idle", genes |-> <<>>, kwargs |-> <<>>,
                  default_params |-> <<>>, kwargs_lower |-> <<>>,
                  keys_done |-> 0, params |-> None, request |-> None]

(* ----------------------------- call chain: idle ----------------------- *)

\* the arguments of a request that takes none
NoArguments ==
    [n_clicks |-> 0, content |-> None, marker_gene |-> None,
     target_cluster |-> None]

\* no request
ChainIdle ==
    chain = [pc |-> "idle", entry |-> "none", args |-> NoArguments,
             stack |-> <<>>, raised |-> "none"]

(* ------------------------------- inputs ------------------------------- *)

Points == {p \in (0..MaxCoord) \X (0..MaxCoord) : p[1] + p[2] <= MaxCoord}

SeqUpTo(S, n) == UNION {[1..k -> S] : k \in 0..n}

\* the default full circle, the shifted full circle, an empty range and a
\* reversed range
ThetaBounds ==
    {<<Int2F(0), Int2F(2)>>, <<Int2F(1), Int2F(3)>>,
     <<Int2F(0), Int2F(0)>>, <<Int2F(2), Int2F(0)>>}

\* The result depends on the rows only as two multisets (boolean indexing
\* keeps the order, every later step is a min, a max or a histogram), so the
\* rows are enumerated in one order: non-decreasing in (x, y, mask).
RowKey(p, e) == 2 * (p[1] * (MaxCoord + 1) + p[2]) + (IF e THEN 1 ELSE 0)

Ordered(c, m) ==
    \A k \in 1..(Len(c) - 1) : RowKey(c[k], m[k]) <= RowKey(c[k + 1], m[k + 1])

\* any population: coordinates with a mask of the same length
InitAny ==
    /\ coordinates \in SeqUpTo(Points, MaxPoints)
    /\ is_expressing \in [1..Len(coordinates) -> BOOLEAN]
    /\ Ordered(coordinates, is_expressing)

\* a mask whose length differs from the number of rows
InitMismatch ==
    /\ coordinates \in SeqUpTo({<<0, 0>>}, MaxPoints)
    /\ is_expressing \in SeqUpTo(BOOLEAN, MaxPoints)
    /\ Len(is_expressing) # Len(coordinates)

\* two copies of one point set, the first copy marked expressing
InitTwoCopies ==
    \E P \in SeqUpTo(Points, MaxCopy) :
        /\ P # <<>>
        /\ Ordered(P, [k \in 1..Len(P) |-> TRUE])
        /\ coordinates = P \o P
        /\ is_expressing = [k \in 1..(2 * Len(P)) |-> k <= Len(P)]

\* the locals of a frame at entry, before rsp.py:34 has run
FreshLocals ==
    /\ pc = "start"
    /\ foreground_coordinates = <<>>
    /\ background_coordinates = <<>>
    /\ total_expressing_cells = 0
    /\ differences = <<>>
    /\ scan_thetas = <<>>
    /\ foreground_projection = <<>>
    /\ background_projection = <<>>
    /\ foreground_hist_values = <<>>
    /\ background_hist_values = <<>>
    /\ foreground_cdf = <<>>
    /\ background_cdf = <<>>
    /\ angles = <<>>
    /\ radii = <<>>
    /\ polygon_area = Unbound
    /\ roundness = Unbound
    /\ raised = "none"
    /\ result = <<>>

Init ==
    /\ (InitAny \/ InitMismatch \/ InitTwoCopies)
    /\ theta_bound \in ThetaBounds
    /\ FreshLocals
    /\ earlier = <<>>
    /\ TsneIdle
    /\ PagerIdle
    /\ ChainIdle

\* a first invocation with the default theta_bound, to be followed by one on
\* related arguments
InitCalls ==
    /\ InitAny
    /\ theta_bound = <<Int2F(0), Int2F(2)>>
    /\ FreshLocals
    /\ earlier = <<>>
    /\ TsneIdle
    /\ PagerIdle
    /\ ChainIdle

(* ------------------------------ actions ------------------------------- *)

RECURSIVE Select(_, _, _)
\* coordinates[mask]: the rows whose mask entry equals `keep`, in order
Select(pts, mask, keep) ==
    IF pts = <<>> THEN <<>>
    ELSE LET rest == Select(Tail(pts), Tail(mask), keep)
         IN  IF Head(mask) = keep THEN <<Head(pts)>> \o rest ELSE rest

CountTrue(mask) == Cardinality({k \in 1..Len(mask) : mask[k]})

\* Partition as it would be if indexing paired rows and mask entries up to
\* the shorter of the two instead of raising
PartitionTruncating ==
    /\ pc = "start"
    /\ LET n == IF Len(is_expressing) < Len(coordinates)
                THEN Len(is_expressing) ELSE Len(coordinates)
       IN  /\ foreground_coordinates' =
                 Select(SubSeq(coordinates, 1, n), SubSeq(is_expressing, 1, n), TRUE)
           /\ background_coordinates' =
                 Select(SubSeq(coordinates, 1, n), SubSeq(is_expressing, 1, n), FALSE)
    /\ total_expressing_cells' = CountTrue(is_expressing)
    /\ pc' = "scan"
    /\ UNCHANGED <<outside, scan_locals, inputs, differences, scan_thetas,
                   angles, radii, polygon_area, roundness, raised, result>>

\* rsp.py:38-42.  Boolean indexing with a mask of another length raises
\* IndexError; nothing checks the foreground count.
Partition ==
    /\ pc = "start"
    /\ IF Len(is_expressing) # Len(coordinates)
       THEN /\ pc' = "error"
            /\ raised' = "IndexError"
            /\ UNCHANGED <<foreground_coordinates, background_coordinates,
                           total_expressing_cells>>
       ELSE /\ foreground_coordinates' = Select(coordinates, is_expressing, TRUE)
            /\ background_coordinates' = Select(coordinates, is_expressing, FALSE)
            /\ total_expressing_cells' = CountTrue(is_expressing)
            /\ pc' = "scan"
            /\ UNCHANGED raised
    /\ UNCHANGED <<outside, scan_locals, inputs, differences, scan_thetas, angles, radii,
                   polygon_area, roundness, result>>

\* rsp.py:48-49: differences = [0] * resolution
EmptyBackground ==
    /\ pc = "scan"
    /\ Len(background_coordinates) = 0
    /\ differences' = [k \in 1..resolution |-> Zero]
    /\ pc' = "build"
    /\ UNCHANGED <<outside, scan_locals, inputs, foreground_coordinates, background_coordinates,
                   total_expressing_cells, scan_thetas, angles, radii,
                   polygon_area, roundness, raised, result>>

\* ScanAngle as it would be if each iteration added its divergence to the
\* previous entry (a running total carried from one iteration to the next)
ScanAngleCarrying ==
    /\ pc = "scan"
    /\ Len(background_coordinates) # 0
    /\ LET theta == Theta(Len(scan_thetas))
           fp == Projection(theta, foreground_coordinates)
           bp == Projection(theta, background_coordinates)
       IN  /\ scan_thetas' = Append(scan_thetas, theta)
           /\ IF Len(foreground_coordinates) = 0
              THEN /\ foreground_projection' = fp
                   /\ background_projection' = bp
                   /\ pc' = "error"
                   /\ raised' = "ValueError"
                   /\ UNCHANGED <<differences, foreground_hist_values,
                                  background_hist_values, foreground_cdf,
                                  background_cdf>>
              ELSE LET min_val == MinVal(fp, bp)
                       max_val == MaxVal(fp, bp)
                       norm_denom == FSub(max_val, min_val)
                   IN  /\ foreground_projection' =
                             NormalizeProjection(fp, min_val, norm_denom)
                       /\ background_projection' =
                             NormalizeProjection(bp, min_val, norm_denom)
                       /\ foreground_hist_values' =
                             Histogram(foreground_projection', resolution)
                       /\ background_hist_values' =
                             Histogram(background_projection', resolution)
                       /\ foreground_cdf' =
                             NormalizeCdf(Cumsum(foreground_hist_values'))
                       /\ background_cdf' =
                             NormalizeCdf(Cumsum(background_hist_values'))
                       /\ differences' =
                             Append(differences,
                                    FAdd(IF differences = <<>> THEN Zero
                                         ELSE differences[Len(differences)],
                                         AbsDifferenceSum(foreground_cdf',
                                                          background_cdf')))
                       /\ pc' = IF Len(scan_thetas) + 1 = resolution
                                THEN "build" ELSE "scan"
                       /\ UNCHANGED raised
    /\ UNCHANGED <<outside, inputs, foreground_coordinates,
                   background_coordinates, total_expressing_cells, angles,
                   radii, polygon_area, roundness, result>>

\* rsp.py:51-84, one iteration of the loop over np.linspace.  .min() of an
\* empty foreground projection raises ValueError at line 62.
ScanAngle ==
    /\ pc = "scan"
    /\ Len(background_coordinates) # 0
    /\ LET theta == Theta(Len(scan_thetas))
           fp == Projection(theta, foreground_coordinates)
           bp == Projection(theta, background_coordinates)
       IN  /\ scan_thetas' = Append(scan_thetas, theta)
           /\ IF Len(foreground_coordinates) = 0
              THEN /\ foreground_projection' = fp
                   /\ background_projection' = bp
                   /\ pc' = "error"
                   /\ raised' = "ValueError"
                   /\ UNCHANGED <<differences, foreground_hist_values,
                                  background_hist_values, foreground_cdf,
                                  background_cdf>>
              ELSE LET min_val == MinVal(fp, bp)
                       max_val == MaxVal(fp, bp)
                       norm_denom == FSub(max_val, min_val)
                   IN  /\ foreground_projection' =
                             NormalizeProjection(fp, min_val, norm_denom)
                       /\ background_projection' =
                             NormalizeProjection(bp, min_val, norm_denom)
                       /\ foreground_hist_values' =
                             Histogram(foreground_projection', resolution)
                       /\ background_hist_values' =
                             Histogram(background_projection', resolution)
                       /\ foreground_cdf' =
                             NormalizeCdf(Cumsum(foreground_hist_values'))
                       /\ background_cdf' =
                             NormalizeCdf(Cumsum(background_hist_values'))
                       /\ differences' =
                             Append(differences,
                                    AbsDifferenceSum(foreground_cdf',
                                                     background_cdf'))
                       /\ pc' = IF Len(scan_thetas) + 1 = resolution
                                THEN "build" ELSE "scan"
                       /\ UNCHANGED raised
    /\ UNCHANGED <<outside, inputs, foreground_coordinates,
                   background_coordinates, total_expressing_cells, angles,
                   radii, polygon_area, roundness, result>>

\* h = diff / (np.sin(angle_step / 2) * resolution)
ChordHeight(diff) ==
    FDiv(diff, FMul(NpSin(FDiv(angle_step, Int2F(2))), Int2F(resolution)))

\* rsp.py:90-95, one iteration: two vertices per sampled angle
BuildVertex ==
    /\ pc = "build"
    /\ LET i == Len(angles) \div 2
           theta == Theta(i)
           h == ChordHeight(differences[i + 1])
       IN  /\ angles' = angles \o <<theta, FAdd(theta, angle_step)>>
           /\ radii' = radii \o <<h, h>>
           /\ pc' = IF i + 1 = resolution THEN "normalize" ELSE "build"
    /\ UNCHANGED <<outside, scan_locals, inputs, foreground_coordinates, background_coordinates,
                   total_expressing_cells, differences, scan_thetas,
                   polygon_area, roundness, raised, result>>

\* NormalizeRadii as it would be with the radii divided by the number of all
\* points instead of the number of foreground points
NormalizeRadiiByAllPoints ==
    /\ pc = "normalize"
    /\ radii' = [k \in 1..Len(radii) |->
                    FDiv(radii[k], Int2F(Len(coordinates)))]
    /\ pc' = "area"
    /\ UNCHANGED <<outside, scan_locals, inputs, foreground_coordinates, background_coordinates,
                   total_expressing_cells, differences, scan_thetas, angles,
                   polygon_area, roundness, raised, result>>

\* rsp.py:98: radii = [r / total_expressing_cells for r in radii]
NormalizeRadii ==
    /\ pc = "normalize"
    /\ radii' = [k \in 1..Len(radii) |->
                    FDiv(radii[k], Int2F(total_expressing_cells))]
    /\ pc' = "area"
    /\ UNCHANGED <<outside, scan_locals, inputs, foreground_coordinates, background_coordinates,
                   total_expressing_cells, differences, scan_thetas, angles,
                   polygon_area, roundness, raised, result>>

\* rsp.py:101: range(0, len(radii) - 1, 2), as 1-based indices
SegmentStarts(n) == {k \in 1..(n - 1) : k % 2 = 1}

\* rsp.py:102-103
SegmentArea(k) ==
    FMul(FMul(Rat(1, 2), FSub(angles[k + 1], angles[k])),
         FAdd(FSq(radii[k]), FSq(radii[k + 1])))

RECURSIVE SumOver(_, _, _)
\* sum of f[k] for k in 1..n with k in S, left to right
SumOver(f, S, n) ==
    IF n = 0 THEN Zero
    ELSE IF n \in S THEN FAdd(SumOver(f, S, n - 1), f[n])
    ELSE SumOver(f, S, n - 1)

\* rsp.py:100-106
ComputeArea ==
    /\ pc = "area"
    /\ polygon_area' =
          SumOver(AsSeq([k \in 1..(Len(radii) - 1) |-> SegmentArea(k)]),
                  SegmentStarts(Len(radii)), Len(radii) - 1)
    /\ pc' = "roundness"
    /\ UNCHANGED <<outside, scan_locals, inputs, foreground_coordinates, background_coordinates,
                   total_expressing_cells, differences, scan_thetas, angles,
                   radii, roundness, raised, result>>

\* rsp.py:108-111
CircleArea == FMul(NpPi, FSq(MaxSeq(radii)))

\* rsp.py:108-113: roundness = |polygon_area - circle_area| / circle_area
ComputeRoundness ==
    /\ pc = "roundness"
    /\ roundness' = FDiv(FAbs(FSub(polygon_area, CircleArea)), CircleArea)
    /\ pc' = "return"
    /\ UNCHANGED <<outside, scan_locals, inputs, foreground_coordinates, background_coordinates,
                   total_expressing_cells, differences, scan_thetas, angles,
                   radii, polygon_area, raised, result>>

\* rsp.py:116-151: the figure holds the vertices; the tuple is returned
Return ==
    /\ pc = "return"
    /\ result' = <<[r |-> radii, theta |-> angles,
                    polygon_area |-> polygon_area, roundness |-> roundness]>>
    /\ pc' = "done"
    /\ UNCHANGED <<outside, scan_locals, inputs, foreground_coordinates, background_coordinates,
                   total_expressing_cells, differences, scan_thetas, angles,
                   radii, polygon_area, roundness, raised>>

\* pts with every coordinate multiplied by k
Scale(k, pts) == [i \in 1..Len(pts) |-> <<k * pts[i][1], k * pts[i][2]>>]

\* tb with both ends moved by s * pi
Shift(s, tb) == <<FAdd(tb[1], FMul(Int2F(s), NpPi)),
                  FAdd(tb[2], FMul(Int2F(s), NpPi))>>

\* what a finished invocation leaves for comparison with the next one
Finished ==
    [coordinates |-> coordinates, is_expressing |-> is_expressing,
     theta_bound |-> theta_bound, differences |-> differences,
     scan_thetas |-> scan_thetas, angles |-> angles, radii |-> radii,
     polygon_area |-> polygon_area, roundness |-> roundness,
     raised |-> raised, result |-> result]

\* rsp.py:16-44, 87-88: the entry of a second invocation, after the first has
\* returned or raised, with the first one's mask, its coordinates times k and
\* its theta_bound moved by s * pi.  Every local is bound afresh; `kept` is
\* the divergence list the new frame starts with.
Enter(k, s, kept) ==
    /\ pc \in {"done", "error"}
    /\ earlier = <<>>
    /\ earlier' = <<Finished>>
    /\ coordinates' = Scale(k, coordinates)
    /\ theta_bound' = Shift(s, theta_bound)
    /\ is_expressing' = is_expressing
    /\ pc' = "start"
    /\ foreground_coordinates' = <<>>
    /\ background_coordinates' = <<>>
    /\ total_expressing_cells' = 0
    /\ differences' = kept
    /\ scan_thetas' = <<>>
    /\ foreground_projection' = <<>>
    /\ background_projection' = <<>>
    /\ foreground_hist_values' = <<>>
    /\ background_hist_values' = <<>>
    /\ foreground_cdf' = <<>>
    /\ background_cdf' = <<>>
    /\ angles' = <<>>
    /\ radii' = <<>>
    /\ polygon_area' = Unbound
    /\ roundness' = Unbound
    /\ raised' = "none"
    /\ result' = <<>>
    /\ UNCHANGED <<tsne_side, pager_call, chain>>

\* CallAgain as it would be if the divergence list outlived the invocation
\* (a module-level or default-argument list instead of rsp.py:44's local)
CallAgainKeepingDifferences == Enter(1, 0, differences)

\* a second invocation with the same arguments; rsp.py:44 starts a new list
CallAgain == Enter(1, 0, <<>>)

\* a second invocation with every coordinate multiplied by k > 1
CallScaled == \E k \in 2..MaxScale : Enter(k, 0, <<>>)

\* a second invocation with theta_bound moved by pi
CallShifted == Enter(1, 1, <<>>)

Next ==
    \/ Partition
    \/ EmptyBackground
    \/ ScanAngle
    \/ BuildVertex
    \/ NormalizeRadii
    \/ ComputeArea
    \/ ComputeRoundness
    \/ Return

Spec == Init /\ [][Next]_vars

\* two invocations with the same arguments
NextCalls ==
    \/ Partition
    \/ EmptyBackground
    \/ ScanAngle
    \/ BuildVertex
    \/ NormalizeRadii
    \/ ComputeArea
    \/ ComputeRoundness
    \/ Return
    \/ CallAgain

SpecCalls == Init /\ [][NextCalls]_vars

\* an invocation followed by one on the scaled coordinates
NextScaled ==
    \/ Partition
    \/ EmptyBackground
    \/ ScanAngle
    \/ BuildVertex
    \/ NormalizeRadii
    \/ ComputeArea
    \/ ComputeRoundness
    \/ Return
    \/ CallScaled

SpecScaled == InitCalls /\ [][NextScaled]_vars

\* an invocation followed by one on the theta_bound moved by pi
NextShifted ==
    \/ Partition
    \/ EmptyBackground
    \/ ScanAngle
    \/ BuildVertex
    \/ NormalizeRadii
    \/ ComputeArea
    \/ ComputeRoundness
    \/ Return
    \/ CallShifted

SpecShifted == InitCalls /\ [][NextShifted]_vars

(* ------------------------- generate_tsne: steps ----------------------- *)

\* no call of generate_polygon
PolygonIdle ==
    /\ coordinates = <<>>
    /\ is_expressing = <<>>
    /\ theta_bound = <<Int2F(0), Int2F(2)>>
    /\ pc = "idle"
    /\ foreground_coordinates = <<>>
    /\ background_coordinates = <<>>
    /\ total_expressing_cells = 0
    /\ differences = <<>>
    /\ scan_thetas = <<>>
    /\ foreground_projection = <<>>
    /\ background_projection = <<>>
    /\ foreground_hist_values = <<>>
    /\ background_hist_values = <<>>
    /\ foreground_cdf = <<>>
    /\ background_cdf = <<>>
    /\ angles = <<>>
    /\ radii = <<>>
    /\ polygon_area = Unbound
    /\ roundness = Unbound
    /\ raised = "none"
    /\ result = <<>>
    /\ earlier = <<>>

\* A call generate_tsne(dge_file, marker_gene=..., target_cluster=...) on a
\* DGE file whose caches are absent or were written by an earlier run on the
\* same file: the .dge.parquet first, the .tsne.csv after it.
InitTsne ==
    /\ PolygonIdle
    /\ PagerIdle
    /\ ChainIdle
    /\ \E t \in DgeTables :
          \/ files = [dge |-> Some(t), parquet |-> None, csv |-> None]
          \/ files = [dge |-> Some(t), parquet |-> Some(t), csv |-> None]
          \/ \E c \in [1..t.cells -> TsnePoints] :
                files = [dge |-> Some(t), parquet |-> Some(t), csv |-> Some(c)]
    /\ dge_data = None
    /\ tsne_coordinates = None
    /\ cluster_labels = None
    /\ \E m \in MarkerGenes, c \in TargetClusters :
          tsne_call = [pc |-> "read", marker_gene |-> m, target_cluster |-> c,
                       filtered_tsne_coordinates |-> None,
                       is_expressing |-> None, fit_predict |-> None,
                    raised |-> "none",
                       result |-> None]

\* tsne.py:65-79: the table comes from the .dge.parquet beside the DGE file
\* if there is one, else from the DGE file, and is then cached
ReadDge ==
    /\ tsne_call.pc = "read"
    /\ IF files.parquet # None
       THEN /\ dge_data' = files.parquet
            /\ UNCHANGED files
       ELSE /\ dge_data' = files.dge
            /\ files' = [files EXCEPT !.parquet = files.dge]
    /\ tsne_call' = [tsne_call EXCEPT !.pc = "embed"]
    /\ UNCHANGED <<polygon_side, pager_call, chain, tsne_coordinates, cluster_labels>>

\* tsne.py:81-97: the coordinates come from the .tsne.csv if there is one,
\* else from TSNE() (unseeded: any placement of the cells), and are cached
Embed ==
    /\ tsne_call.pc = "embed"
    /\ IF files.csv # None
       THEN /\ tsne_coordinates' = files.csv
            /\ UNCHANGED files
       ELSE \E c \in [1..dge_data[1].cells -> TsnePoints] :
                /\ tsne_coordinates' = Some(c)
                /\ files' = [files EXCEPT !.csv = Some(c)]
    /\ tsne_call' = [tsne_call EXCEPT !.pc = "cluster"]
    /\ UNCHANGED <<polygon_side, pager_call, chain, dge_data, cluster_labels>>

\* what DBSCAN.fit_predict can return for n points: -1 for noise, and the
\* cluster ids 0..k-1, each of them used
DbscanLabelings(n) ==
    {l \in [1..n -> -1..(n - 1)] :
        \A i \in 1..n : \A id \in 0..(l[i] - 1) : \E j \in 1..n : l[j] = id}

\* tsne.py:105 as it would be if it added 1 to every label
RelabelEveryCell(raw) == [i \in 1..Len(raw) |-> raw[i] + 1]

\* tsne.py:105: cluster_labels[cluster_labels != -1] += 1
Relabel(raw) ==
    [i \in 1..Len(raw) |-> IF raw[i] # -1 THEN raw[i] + 1 ELSE raw[i]]

\* tsne.py:103-105
Cluster ==
    /\ tsne_call.pc = "cluster"
    /\ \E raw \in DbscanLabelings(Len(tsne_coordinates[1])) :
          /\ cluster_labels' = Some(Relabel(raw))
          /\ tsne_call' = [tsne_call EXCEPT !.pc = "select",
                                            !.fit_predict = Some(raw)]
    /\ UNCHANGED <<polygon_side, pager_call, chain, files, dge_data, tsne_coordinates>>

\* `if marker_gene:`
Truthy(m) == m # None /\ m[1] # ""

\* marker_gene in dge_data.index
InIndex(g, table) == \E k \in 1..Len(table.index) : table.index[k] = g

\* dge_data.loc[marker_gene].values
GeneExpression(g, table) ==
    table.values[CHOOSE k \in 1..Len(table.index) : table.index[k] = g]

\* a & b of two boolean arrays, with numpy's broadcasting of a length-1
\* operand; None stands for the ValueError of two lengths that do not fit
BroadcastAnd(a, b) ==
    IF Len(a) = Len(b) THEN Some([i \in 1..Len(a) |-> a[i] /\ b[i]])
    ELSE IF Len(a) = 1 THEN Some([i \in 1..Len(b) |-> a[1] /\ b[i]])
    ELSE IF Len(b) = 1 THEN Some([i \in 1..Len(a) |-> a[i] /\ b[1]])
    ELSE None

RECURSIVE Take(_, _)
\* rows[mask] for a boolean mask of the same length
Take(rows, mask) ==
    IF rows = <<>> THEN <<>>
    ELSE IF Head(mask) THEN <<Head(rows)>> \o Take(Tail(rows), Tail(mask))
    ELSE Take(Tail(rows), Tail(mask))

\* generate_tsne ends with the exception e
TsneRaise(e) ==
    tsne_call' = [tsne_call EXCEPT !.pc = "error", !.raised = e]

\* generate_tsne goes on to its return statement with these two locals
TsneSelected(rows, mask) ==
    tsne_call' = [tsne_call EXCEPT !.pc = "return",
                                   !.filtered_tsne_coordinates = Some(rows),
                                   !.is_expressing = mask]

\* tsne.py:123-205: the expressing mask and the filtered coordinates, in
\* the four branches.  Indexing with a boolean mask of another length
\* raises IndexError.
SelectCells ==
    /\ tsne_call.pc = "select"
    /\ LET table == dge_data[1]
           rows == tsne_coordinates[1]
           labels == cluster_labels[1]
           marker_gene == tsne_call.marker_gene
           target_cluster == tsne_call.target_cluster
       IN  IF Truthy(marker_gene)
           THEN IF InIndex(marker_gene[1], table)
                THEN LET gene_expression == GeneExpression(marker_gene[1], table)
                         expressing == [i \in 1..Len(gene_expression) |->
                                           gene_expression[i] > 0]
                     IN  IF target_cluster # None
                         THEN LET cluster_mask ==
                                      [i \in 1..Len(labels) |->
                                          labels[i] = target_cluster[1]]
                                  both == BroadcastAnd(expressing, cluster_mask)
                              IN  IF both = None
                                  THEN TsneRaise("ValueError")
                                  ELSE TsneSelected(Take(rows, cluster_mask),
                                                    Some(Take(both[1],
                                                              cluster_mask)))
                         ELSE IF Len(expressing) # Len(rows)
                              THEN TsneRaise("IndexError")
                              ELSE TsneSelected(rows, Some(expressing))
                ELSE tsne_call' =
                        [tsne_call EXCEPT
                            !.pc = "done",
                            !.result = Some([coordinates |-> None,
                                             is_expressing |-> None])]
           ELSE IF target_cluster # None
                THEN LET in_cluster == [i \in 1..Len(labels) |->
                                           labels[i] = target_cluster[1]]
                     IN  TsneSelected(Take(rows, in_cluster), Some(in_cluster))
                ELSE TsneSelected(rows, None)
    /\ UNCHANGED <<polygon_side, pager_call, chain, files, dge_data, tsne_coordinates,
                   cluster_labels>>

\* tsne.py:218: return filtered_tsne_coordinates, is_expressing
ReturnTsne ==
    /\ tsne_call.pc = "return"
    /\ tsne_call' =
          [tsne_call EXCEPT
              !.pc = "done",
              !.result = Some([coordinates |->
                                  tsne_call.filtered_tsne_coordinates,
                               is_expressing |-> tsne_call.is_expressing])]
    /\ UNCHANGED <<polygon_side, pager_call, chain, files, dge_data, tsne_coordinates,
                   cluster_labels>>

NextTsne ==
    \/ ReadDge
    \/ Embed
    \/ Cluster
    \/ SelectCells
    \/ ReturnTsne

SpecTsne == InitTsne /\ [][NextTsne]_vars

(* --------------------------- PAGER.run_pager -------------------------- *)

\* Python values that are not None, with their type
StrV(x) == [t |-> "str", v |-> x]
IntV(x) == [t |-> "int", v |-> x]
FloatV(x) == [t |-> "float", v |-> x]
ListV(x) == [t |-> "list", v |-> x]

\* A keyword is a sequence of characters.
Uppercase == <<"A", "B", "C", "D", "E", "F", "G", "H", "I", "J", "K", "L", "M", "N", "O", "P", "Q", "R", "S", "T", "U", "V", "W", "X", "Y", "Z">>
Lowercase == <<"a", "b", "c", "d", "e", "f", "g", "h", "i", "j", "k", "l", "m", "n", "o", "p", "q", "r", "s", "t", "u", "v", "w", "x", "y", "z">>

\* str.lower() of one character
LowerChar(c) ==
    IF \E i \in 1..Len(Uppercase) : Uppercase[i] = c
    THEN Lowercase[CHOOSE i \in 1..Len(Uppercase) : Uppercase[i] = c]
    ELSE c

\* k.lower()
Lower(k) == AsSeq([i \in 1..Len(k) |-> LowerChar(k[i])])

Digits == <<"0", "1", "2", "3", "4", "5", "6", "7", "8", "9">>

RECURSIVE IntStr(_)
\* str(n) of an int
IntStr(n) ==
    IF n < 0 THEN "-" \o IntStr(-n)
    ELSE IF n < 10 THEN Digits[n + 1]
    ELSE IntStr(n \div 10) \o Digits[(n % 10) + 1]

\* str(x) of a str or an int
PyStr(x) == IF x.t = "str" THEN x ELSE StrV(IntStr(x.v))

RECURSIVE Join(_, _)
\* sep.join(names)
Join(sep, names) ==
    IF names = <<>> THEN ""
    ELSE IF Len(names) = 1 THEN names[1]
    ELSE names[1] \o sep \o Join(sep, Tail(names))

\* A dict is the sequence of its items, keys distinct, in insertion order.
HasKey(d, k) == \E i \in 1..Len(d) : d[i].key = k

\* d.get(k, default)
DictGet(d, k, default) ==
    IF HasKey(d, k)
    THEN d[CHOOSE i \in 1..Len(d) : d[i].key = k].value
    ELSE default

\* d[k] = v
DictSet(d, k, v) ==
    IF HasKey(d, k)
    THEN [d EXCEPT ![CHOOSE i \in 1..Len(d) : d[i].key = k].value = v]
    ELSE Append(d, [key |-> k, value |-> v])

\* the comprehension of pager.py:94 as it would be if it kept the keys as
\* they were passed
KwargsLowerAsPassed(kw) == kw

RECURSIVE KwargsLower(_)
\* pager.py:94: {k.lower(): v for k, v in kwargs.items()}
KwargsLower(kw) ==
    IF kw = <<>> THEN <<>>
    ELSE DictSet(KwargsLower(SubSeq(kw, 1, Len(kw) - 1)),
                 Lower(kw[Len(kw)].key), kw[Len(kw)].value)

\* pager.py:42-78
all_sources ==
    <<
        "BioCarta",
        "DSigDB",
        "GAD",
        "GeneSigDB",
        "GOA",
        "GOA_EXCL",
        "GTEx",
        "GWAS Catalog",
        "Isozyme",
        "KEGG_2021_HUMAN",
        "Microcosm Targets",
        "mirTARbase",
        "MSigDB",
        "NCI-Nature Curated",
        "NGS Catalog",
        "Pfam",
        "PharmGKB",
        "PheWAS",
        "Protein Lounge",
        "Reactome_2021",
        "Spike",
        "TargetScan",
        "HPA-normProtein",
        "HPA-PathologyAtlas",
        "HPA-CellAtlas",
        "HPA-RNAcon",
        "HPA-normRNA",
        "HPA-GTEx",
        "HPA-FANTOM5",
        "HPA-TCGA",
        "The Genes Reported in Articles Published by Cell",
        "I2D database, version 2.9",
        "GeoMx Cancer Transcriptome Atlas",
        "WikiPathway_2021",
        "CellMarker"
    >>

source_key == <<"s", "o", "u", "r", "c", "e">>
type_key == <<"t", "y", "p", "e">>
min_size_key == <<"m", "i", "n", "_", "s", "i", "z", "e">>
max_size_key == <<"m", "a", "x", "_", "s", "i", "z", "e">>
similarity_key == <<"s", "i", "m", "i", "l", "a", "r", "i", "t", "y">>
overlap_key == <<"o", "v", "e", "r", "l", "a", "p">>
organism_key == <<"o", "r", "g", "a", "n", "i", "s", "m">>
n_coco_key == <<"n", "_", "c", "o", "c", "o">>
p_value_key == <<"p", "_", "v", "a", "l", "u", "e">>
fdr_key == <<"f", "d", "r">>

\* pager.py:81-92
DefaultParams ==
    << [key |-> source_key, value |-> ListV(all_sources)],
       [key |-> type_key, value |-> StrV("All")],
       [key |-> min_size_key, value |-> IntV(1)],
       [key |-> max_size_key, value |-> IntV(2000)],
       [key |-> similarity_key, value |-> IntV(0)],
       [key |-> overlap_key, value |-> StrV("1")],
       [key |-> organism_key, value |-> StrV("All")],
       [key |-> n_coco_key, value |-> StrV("0")],
       [key |-> p_value_key, value |-> FloatV([n |-> 1, d |-> 20])],
       [key |-> fdr_key, value |-> FloatV([n |-> 1, d |-> 20])] >>

\* the keywords a caller passes, with a value each: parameters of run_pager
\* in several letter cases, names of payload fields, and other names
KeywordChoices ==
    {
        [key |-> <<"t", "y", "p", "e">>, value |-> StrV("P")],
        [key |-> <<"T", "Y", "P", "E">>, value |-> StrV("G")],
        [key |-> <<"T", "y", "p", "e">>, value |-> StrV("All")],
        [key |-> <<"f", "d", "r">>, value |-> FloatV([n |-> 1, d |-> 100])],
        [key |-> <<"F", "D", "R">>, value |-> FloatV([n |-> 1, d |-> 10])],
        [key |-> <<"P", "_", "V", "a", "l", "u", "e">>, value |-> FloatV([n |-> 1, d |-> 100])],
        [key |-> <<"s", "i", "m", "i", "l", "a", "r", "i", "t", "y">>, value |-> IntV(12)],
        [key |-> <<"S", "I", "M", "I", "L", "A", "R", "I", "T", "Y">>, value |-> IntV(0)],
        [key |-> <<"o", "v", "e", "r", "l", "a", "p">>, value |-> StrV("2")],
        [key |-> <<"O", "v", "e", "r", "l", "a", "p">>, value |-> IntV(3)],
        [key |-> <<"N", "_", "C", "O", "C", "O">>, value |-> StrV("1")],
        [key |-> <<"m", "i", "n", "_", "s", "i", "z", "e">>, value |-> IntV(5)],
        [key |-> <<"M", "a", "x", "_", "S", "i", "z", "e">>, value |-> IntV(100)],
        [key |-> <<"o", "r", "g", "a", "n", "i", "s", "m">>, value |-> StrV("Human")],
        [key |-> <<"S", "o", "u", "r", "c", "e">>, value |-> ListV(<<"GAD", "GOA">>)],
        [key |-> <<"s", "o", "u", "r", "c", "e">>, value |-> ListV(<<"Pfam">>)],
        [key |-> <<"p", "v", "a", "l", "u", "e">>, value |-> FloatV([n |-> 1, d |-> 100])],
        [key |-> <<"s", "i", "m">>, value |-> IntV(9)],
        [key |-> <<"g", "e">>, value |-> IntV(9)],
        [key |-> <<"G", "e", "n", "e", "s">>, value |-> ListV(<<"Sparc">>)],
        [key |-> <<"c", "o", "h", "e", "s", "i", "o", "n">>, value |-> StrV("5")]
    }

\* what **kwargs can be: up to MaxKwargs keywords, no keyword twice
KwargsUpTo(n) ==
    UNION {{kw \in [1..m -> KeywordChoices] :
               \A i, j \in 1..m : i # j => kw[i].key # kw[j].key} : m \in 0..n}

\* the gene lists of the calls
GeneLists == {<<"Actc1">>, <<"Actc1", "Sparc">>}

\* a call run_pager(genes, **kwargs)
InitPager ==
    /\ PolygonIdle
    /\ TsneIdle
    /\ ChainIdle
    /\ \E g \in GeneLists, kw \in KwargsUpTo(MaxKwargs) :
          pager_call = [pc |-> "defaults", genes |-> g, kwargs |-> AsSeq(kw),
                        default_params |-> <<>>, kwargs_lower |-> <<>>,
                        keys_done |-> 0, params |-> None, request |-> None]

\* pager.py:42-92
SetDefaults ==
    /\ pager_call.pc = "defaults"
    /\ pager_call' = [pager_call EXCEPT !.pc = "lower",
                                        !.default_params = DefaultParams]
    /\ UNCHANGED <<polygon_side, tsne_side, chain>>

\* pager.py:94
LowerKwargs ==
    /\ pager_call.pc = "lower"
    /\ pager_call' = [pager_call EXCEPT
                         !.pc = "override",
                         !.kwargs_lower = KwargsLower(pager_call.kwargs)]
    /\ UNCHANGED <<polygon_side, tsne_side, chain>>

\* pager.py:97-98: one turn of the loop over default_params.keys()
OverrideKey ==
    /\ pager_call.pc = "override"
    /\ pager_call.keys_done < Len(pager_call.default_params)
    /\ LET i == pager_call.keys_done + 1
           item == pager_call.default_params[i]
       IN  pager_call' =
             [pager_call EXCEPT
                 !.keys_done = i,
                 !.default_params[i].value =
                     DictGet(pager_call.kwargs_lower, item.key, item.value)]
    /\ UNCHANGED <<polygon_side, tsne_side, chain>>

\* default_params[name]
Param(name) == DictGet(pager_call.default_params, name, None)

\* pager.py:101-113
BuildPayload ==
    /\ pager_call.pc = "override"
    /\ pager_call.keys_done = Len(pager_call.default_params)
    /\ pager_call' =
         [pager_call EXCEPT
             !.pc = "post",
             !.params =
                 Some([genes |-> StrV(Join("%20", pager_call.genes)),
                       source |-> StrV(Join("%20", Param(source_key).v)),
                       type |-> Param(type_key),
                       ge |-> Param(min_size_key),
                       le |-> Param(max_size_key),
                       sim |-> PyStr(Param(similarity_key)),
                       olap |-> PyStr(Param(overlap_key)),
                       organism |-> Param(organism_key),
                       cohesion |-> PyStr(Param(n_coco_key)),
                       pvalue |-> Param(p_value_key),
                       FDR |-> Param(fdr_key)])]
    /\ UNCHANGED <<polygon_side, tsne_side, chain>>

\* pager.py:115-118: the payload is posted to the PAGER API
PostRequest ==
    /\ pager_call.pc = "post"
    /\ pager_call' =
         [pager_call EXCEPT
             !.pc = "done",
             !.request =
                 Some([url |-> "http://discovery.informatics.uab.edu/PAGER/index.php/geneset/pagerapi",
                       data |-> pager_call.params[1]])]
    /\ UNCHANGED <<polygon_side, tsne_side, chain>>

NextPager ==
    \/ SetDefaults
    \/ LowerKwargs
    \/ OverrideKey
    \/ BuildPayload
    \/ PostRequest

SpecPager == InitPager /\ [][NextPager]_vars

(* ------------------------------ call chain --------------------------- *)

\* The functions of one analysis: their declared parameters in order, how
\* many of them (the leading ones) have no default, and how many values
\* their return statement returns.
Signatures ==
    [main_update_plots |->
        [params |-> <<"n_clicks", "dge_file_content", "gene_name", "cluster">>,
         required |-> 4, returns |-> 2],
     update_upload_button_text |->
        [params |-> <<"file_contents">>, required |-> 1, returns |-> 1],
     save_dge_to_temp_file |->
        [params |-> <<"content", "filename">>, required |-> 2, returns |-> 1],
     gene_analysis |->
        [params |-> <<"dge_file", "marker_gene", "target_cluster",
                      "theta_bound", "debug">>,
         required |-> 1, returns |-> 4],
     generate_tsne |->
        [params |-> <<"dge_file", "output_file", "marker_gene",
                      "target_cluster", "epsilon", "minpts", "dev">>,
         required |-> 1, returns |-> 2],
     generate_polygon |->
        [params |-> <<"coordinates", "is_expressing", "theta_bound">>,
         required |-> 2, returns |-> 3],
     get_genes |->
        [params |-> <<"dge_file", "target_cluster">>,
         required |-> 1, returns |-> 1],
     get_gene_info |->
        [params |-> <<"dge_file", "target_gene">>,
         required |-> 2, returns |-> 1],
     download |->
        [params |-> <<"plots", "data">>, required |-> 0, returns |-> 1],
     sim_update_plots |->
        [params |-> <<"percentage_value", "seed_value", "distribution_type">>,
         required |-> 3, returns |-> 2],
     plot_simulated_cells |->
        [params |-> <<"num_points", "expression_percentage", "distribution",
                      "sigma", "seed", "display">>,
         required |-> 2, returns |-> 2]]

\* a call statement: the callee, the number of positional arguments, the
\* keywords, and the number of names the result is unpacked into (0: the
\* result is bound to one name or dropped)
CallTo(f, n, kw, t) ==
    [op |-> "call", callee |-> f, positional |-> n, keywords |-> kw,
     targets |-> t]

\* the early return of a handler that was given nothing to work on
Guard == [CallTo("none", 0, {}, 0) EXCEPT !.op = "guard"]

\* the function's own work
Body == [CallTo("none", 0, {}, 0) EXCEPT !.op = "body"]

\* The statements of each function that matter to the chain, in order.
Programs ==
    [main_update_plots |->
        <<Guard,
          CallTo("save_dge_to_temp_file", 2, {}, 0),
          CallTo("gene_analysis", 1,
                 {"marker_gene", "target_cluster", "debug"}, 3)>>,
     update_upload_button_text |->
        <<Guard, CallTo("save_dge_to_temp_file", 2, {}, 0)>>,
     save_dge_to_temp_file |-> <<Body>>,
     gene_analysis |->
        <<CallTo("generate_tsne", 1,
                 {"marker_gene", "target_cluster", "debug"}, 3),
          CallTo("generate_polygon", 2, {"theta_bound"}, 3)>>,
     generate_tsne |-> <<Body>>,
     generate_polygon |-> <<Body>>,
     get_genes |-> <<CallTo("generate_tsne", 1, {"target_cluster"}, 3), Body>>,
     get_gene_info |-> <<Body>>,
     download |->
        <<CallTo("get_genes", 0, {"dge_file", "target_cluster"}, 0),
          CallTo("get_gene_info", 0, {"dge_file", "target_gene"}, 0),
          CallTo("gene_analysis", 0,
                 {"dge_file", "marker_gene", "target_cluster"}, 3)>>,
     sim_update_plots |->
        <<CallTo("plot_simulated_cells", 0,
                 {"num_points", "expression_percentage", "distribution",
                  "sigma", "seed"}, 3),
          CallTo("generate_polygon", 2, {}, 0)>>,
     plot_simulated_cells |-> <<Body>>]

\* Python binds the arguments of the call: every keyword is a declared
\* parameter that no positional argument has filled, there are no more
\* positional arguments than parameters, and every parameter without a
\* default gets a value.
Binds(site) ==
    LET params == Signatures[site.callee].params
        required == Signatures[site.callee].required
    IN  /\ site.positional <= Len(params)
        /\ \A k \in site.keywords :
              \E i \in (site.positional + 1)..Len(params) : params[i] = k
        /\ \A i \in (site.positional + 1)..required :
              params[i] \in site.keywords

\* Python unpacks a result of `returned` values into `targets` names
Unpacks(targets, returned) == targets = 0 \/ targets = returned

\* the dashboard's handlers, the scripts' entry points, the simulator's
\* handler
DashEntries == {"main_update_plots", "update_upload_button_text"}
ScriptEntries == {"get_genes", "download"}
SimEntries == {"sim_update_plots"}

\* a request: the dashboard starts with an empty temporary directory and
\* gets the click count, the uploaded table, the gene and the cluster; the
\* scripts work on a DGE file on disk, with or without its caches
InitChain ==
    /\ PolygonIdle
    /\ PagerIdle
    /\ dge_data = None
    /\ tsne_coordinates = None
    /\ cluster_labels = None
    /\ tsne_call = [pc |-> "idle", marker_gene |-> None,
                    target_cluster |-> None,
                    filtered_tsne_coordinates |-> None,
                    is_expressing |-> None, fit_predict |-> None,
                    raised |-> "none", result |-> None]
    /\ \E e \in DashEntries \cup ScriptEntries \cup SimEntries :
          /\ \/ /\ e \in DashEntries
                /\ files = [dge |-> None, parquet |-> None, csv |-> None]
                /\ \E n \in 0..1, t \in {None} \cup {Some(d) : d \in DgeTables},
                      m \in MarkerGenes, c \in TargetClusters :
                      chain = [pc |-> "running", entry |-> e,
                               args |-> [n_clicks |-> n, content |-> t,
                                         marker_gene |-> m,
                                         target_cluster |-> c],
                               stack |-> <<[fn |-> e, at |-> 1]>>,
                               raised |-> "none"]
             \/ /\ e \in ScriptEntries
                /\ \E t \in DgeTables :
                      \/ files = [dge |-> Some(t), parquet |-> None,
                                  csv |-> None]
                      \/ files = [dge |-> Some(t), parquet |-> Some(t),
                                  csv |-> None]
                      \/ \E c \in [1..t.cells -> TsnePoints] :
                            files = [dge |-> Some(t), parquet |-> Some(t),
                                     csv |-> Some(c)]
                /\ \E c \in TargetClusters :
                      chain = [pc |-> "running", entry |-> e,
                               args |-> [NoArguments EXCEPT
                                            !.target_cluster = c],
                               stack |-> <<[fn |-> e, at |-> 1]>>,
                               raised |-> "none"]
             \/ /\ e \in SimEntries
                /\ files = [dge |-> None, parquet |-> None, csv |-> None]
                /\ chain = [pc |-> "running", entry |-> e,
                            args |-> NoArguments,
                            stack |-> <<[fn |-> e, at |-> 1]>>,
                            raised |-> "none"]

\* the frame that is running, its statements and where it is in them
Top == chain.stack[Len(chain.stack)]
AtStatement == chain.pc = "running" /\ Top.at <= Len(Programs[Top.fn])
Statement == Programs[Top.fn][Top.at]

\* the running frame moves on to its next statement
Advance ==
    [chain EXCEPT !.stack[Len(chain.stack)].at = Top.at + 1]

\* the exception e leaves every frame: no function of the chain catches it
ChainRaise(e) ==
    [chain EXCEPT !.pc = "error", !.raised = e, !.stack = <<>>]

\* main.py:108-109, main.py:90-91: nothing to work on, the handler returns
ChainGuard ==
    /\ AtStatement
    /\ Statement.op = "guard"
    /\ LET nothing ==
              \/ chain.args.content = None
              \/ Top.fn = "main_update_plots" /\ chain.args.n_clicks = 0
       IN  chain' = IF nothing
                    THEN [chain EXCEPT !.pc = "done", !.stack = <<>>]
                    ELSE Advance
    /\ UNCHANGED <<polygon_side, tsne_side, pager_call>>

\* a call whose arguments fit the callee's parameters enters the callee
ChainCall ==
    /\ AtStatement
    /\ Statement.op = "call"
    /\ Binds(Statement)
    /\ chain' = [chain EXCEPT
                    !.stack = Append(chain.stack,
                                     [fn |-> Statement.callee, at |-> 1])]
    /\ UNCHANGED <<polygon_side, tsne_side, pager_call>>

\* a call whose arguments do not fit raises TypeError in the caller
ChainBindError ==
    /\ AtStatement
    /\ Statement.op = "call"
    /\ ~Binds(Statement)
    /\ chain' = ChainRaise("TypeError: unexpected keyword argument")
    /\ UNCHANGED <<polygon_side, tsne_side, pager_call>>

\* main.py:120-131: the upload is written to <temp_dir>/dge_temp.txt
SaveTemp ==
    /\ AtStatement
    /\ Statement.op = "body"
    /\ Top.fn = "save_dge_to_temp_file"
    /\ files' = [files EXCEPT !.dge = chain.args.content]
    /\ chain' = Advance
    /\ UNCHANGED <<polygon_side, pager_call, dge_data, tsne_coordinates,
                   cluster_labels, tsne_call>>

\* the body of generate_tsne starts: marker_gene and target_cluster are the
\* caller's, or the defaults when the call does not pass them
EnterTsne ==
    /\ AtStatement
    /\ Statement.op = "body"
    /\ Top.fn = "generate_tsne"
    /\ tsne_call.pc = "idle"
    /\ LET site == Programs[chain.stack[Len(chain.stack) - 1].fn]
                           [chain.stack[Len(chain.stack) - 1].at]
       IN  tsne_call' =
             [tsne_call EXCEPT
                 !.pc = "read",
                 !.marker_gene =
                     IF "marker_gene" \in site.keywords
                     THEN chain.args.marker_gene ELSE None,
                 !.target_cluster =
                     IF "target_cluster" \in site.keywords
                     THEN chain.args.target_cluster ELSE None]
    /\ UNCHANGED <<polygon_side, pager_call, chain, files, dge_data,
                   tsne_coordinates, cluster_labels>>

\* the body of generate_tsne has ended, with its return or its exception
LeaveTsne ==
    /\ AtStatement
    /\ Statement.op = "body"
    /\ Top.fn = "generate_tsne"
    /\ tsne_call.pc \in {"done", "error"}
    /\ chain' = IF tsne_call.pc = "done" THEN Advance
                ELSE ChainRaise(tsne_call.raised)
    /\ UNCHANGED <<polygon_side, tsne_side, pager_call>>

\* the body of a function that calls nothing of the chain and touches no
\* file of it
RunBody ==
    /\ AtStatement
    /\ Statement.op = "body"
    /\ Top.fn \notin {"save_dge_to_temp_file", "generate_tsne"}
    /\ chain' = Advance
    /\ UNCHANGED <<polygon_side, tsne_side, pager_call>>

\* the frame below the running one and the call statement it is at
Caller == chain.stack[Len(chain.stack) - 1]
CallSite == Programs[Caller.fn][Caller.at]

\* the running frame is at its return statement, inside a caller
Returning ==
    /\ chain.pc = "running"
    /\ Top.at > Len(Programs[Top.fn])
    /\ Len(chain.stack) > 1

\* the callee returns and the caller binds or unpacks the result
ChainReturn ==
    /\ Returning
    /\ Unpacks(CallSite.targets, Signatures[Top.fn].returns)
    /\ chain' = [chain EXCEPT
                    !.stack = [SubSeq(chain.stack, 1, Len(chain.stack) - 1)
                                  EXCEPT ![Len(chain.stack) - 1].at =
                                             Caller.at + 1]]
    /\ UNCHANGED <<polygon_side, tsne_side, pager_call>>

\* the callee returns another number of values than the caller unpacks
ChainUnpackError ==
    /\ Returning
    /\ ~Unpacks(CallSite.targets, Signatures[Top.fn].returns)
    /\ chain' = ChainRaise("ValueError: values to unpack")
    /\ UNCHANGED <<polygon_side, tsne_side, pager_call>>

\* the entry point returns
ChainFinish ==
    /\ chain.pc = "running"
    /\ Top.at > Len(Programs[Top.fn])
    /\ Len(chain.stack) = 1
    /\ chain' = [chain EXCEPT !.pc = "done", !.stack = <<>>]
    /\ UNCHANGED <<polygon_side, tsne_side, pager_call>>

NextChain ==
    \/ ChainGuard
    \/ ChainCall
    \/ ChainBindError
    \/ SaveTemp
    \/ EnterTsne
    \/ ReadDge
    \/ Embed
    \/ Cluster
    \/ SelectCells
    \/ ReturnTsne
    \/ LeaveTsne
    \/ RunBody
    \/ ChainReturn
    \/ ChainUnpackError
    \/ ChainFinish

SpecChain == InitChain /\ [][NextChain]_vars

(* ------------------------- properties: helpers ------------------------ *)

\* the call has come back with its tuple
Returned == pc = "done"

\* the mask fits the coordinates
Aligned == Len(is_expressing) = Len(coordinates)

\* number of foreground / background points of the input
ForegroundCount == CountTrue(is_expressing)
BackgroundCount == Len(is_expressing) - CountTrue(is_expressing)

\* positions from which the polygon is complete and normalised
PolygonBuilt == pc \in {"area", "roundness", "return", "done"}

\* positions from which the divergence sequence is complete
ScanOver == pc \in {"build", "normalize", "area", "roundness", "return", "done"}

FullCircle == FSub(theta_end, theta_start) = Int2F(2)

\* "a defined number": neither NaN nor an infinity
Defined(v) == IsFinite(v)

(* ---------------------------------------------------------------------- *)
(* C1.  With zero foreground points generate_polygon rejects the call     *)
(* before any scanning or polygon construction starts and returns         *)
(* nothing: the scan loop is never entered, no divergence and no vertex   *)
(* is recorded, and the call does not return.                             *)
(* ---------------------------------------------------------------------- *)
C1_ZeroForegroundRejected ==
    (Aligned /\ ForegroundCount = 0) =>
        /\ scan_thetas = <<>>
        /\ differences = <<>>
        /\ angles = <<>>
        /\ ~Returned
        /\ result = <<>>

(* ---------------------------------------------------------------------- *)
(* C2.  At every sampled angle whose normalisation denominator max - min  *)
(* is 0 the scan records a divergence of exactly 0, and no undefined      *)
(* value (NaN/Inf) appears in the divergence sequence, the radii,         *)
(* polygon_area or roundness.                                             *)
(* ---------------------------------------------------------------------- *)
C2_ZeroDenominatorGivesZero ==
    /\ \A i \in 1..Len(differences) :
          ( /\ i <= Len(scan_thetas)
            /\ NormDenom(scan_thetas[i], foreground_coordinates,
                         background_coordinates) = Zero )
          => differences[i] = Zero
    /\ \A i \in 1..Len(differences) : Defined(differences[i])
    /\ ( /\ foreground_coordinates # <<>>
          /\ \E i \in 1..Len(scan_thetas) :
                NormDenom(scan_thetas[i], foreground_coordinates,
                          background_coordinates) = Zero )
       => /\ \A k \in 1..Len(radii) : Defined(radii[k])
          /\ (Returned => Defined(polygon_area) /\ Defined(roundness))

(* ---------------------------------------------------------------------- *)
(* C3.  With an empty background and at least one foreground point the    *)
(* divergence sequence is R zeros, the scan body never runs on the empty  *)
(* set, and the returned polygon_area equals 0.                           *)
(* ---------------------------------------------------------------------- *)
C3_EmptyBackgroundZeroArea ==
    (Aligned /\ BackgroundCount = 0 /\ ForegroundCount >= 1) =>
        /\ scan_thetas = <<>>
        /\ pc # "error"
        /\ ScanOver => differences = [k \in 1..resolution |-> Zero]
        /\ Returned => result[1].polygon_area = Zero

(* ---------------------------------------------------------------------- *)
(* C4.  Whenever generate_polygon returns (any coordinates, at least one  *)
(* foreground point, any theta_bound, reversed or empty included) the     *)
(* returned polygon_area is >= 0.  Stated here for the returns whose area  *)
(* is a number, so that the sign alone is at stake (the NaN areas are     *)
(* those of C2 and of theta_end = theta_start).                           *)
(* ---------------------------------------------------------------------- *)
C4_AreaNonNegative ==
    (Returned /\ ForegroundCount >= 1 /\ ~IsNaN(result[1].polygon_area))
        => FGe0(result[1].polygon_area)

(* ---------------------------------------------------------------------- *)
(* C5.  Whenever generate_polygon returns, the returned roundness is a    *)
(* defined number >= 0, also when every divergence is 0 and the reference *)
(* circle area is 0.  Stated here for the returns with at least one       *)
(* foreground point, theta_start < theta_end and a divergence sequence    *)
(* free of NaN, so that no other undefined value is at stake.             *)
(* ---------------------------------------------------------------------- *)
C5_RoundnessDefined ==
    ( /\ Returned
      /\ ForegroundCount >= 1
      /\ FLt(theta_start, theta_end)
      /\ \A i \in 1..Len(differences) : Defined(differences[i]) )
    => /\ Defined(result[1].roundness)
       /\ FGe0(result[1].roundness)

(* ---------------------------------------------------------------------- *)
(* C6.  If every one of the R sampled angles of the full circle has the   *)
(* same non-zero divergence (every vertex has the radius r_max), then     *)
(* roundness is 0: polygon_area equals pi * r_max^2.                      *)
(* ---------------------------------------------------------------------- *)
Isotropic ==
    /\ FullCircle
    /\ Len(differences) = resolution
    /\ \A i \in 1..resolution :
          /\ differences[i] = differences[1]
          /\ IsFinite(differences[i])
          /\ differences[i] # Zero

C6_IsotropicRoundnessZero ==
    (Returned /\ Isotropic) =>
        /\ \A k \in 1..Len(radii) : radii[k] = MaxSeq(radii)
        /\ result[1].roundness = Zero
        /\ result[1].polygon_area = FMul(NpPi, FSq(MaxSeq(radii)))

(* ---------------------------------------------------------------------- *)
(* C7.  The scan samples R angles of the half-open interval               *)
(* [theta_start, theta_end): sample i is theta_start + i * dtheta with    *)
(* dtheta = (theta_end - theta_start) / R, theta_end is never sampled,    *)
(* and the polygon's vertices are built at the same R angles.             *)
(* ---------------------------------------------------------------------- *)
\* theta_start + i * dtheta, written out
HalfOpenSample(i) ==
    FAdd(theta_start,
         FMul(Int2F(i), FDiv(FSub(theta_end, theta_start), Int2F(resolution))))

C7_HalfOpenSampling ==
    /\ \A i \in 1..Len(scan_thetas) :
          /\ scan_thetas[i] = HalfOpenSample(i - 1)
          /\ (theta_end # theta_start => scan_thetas[i] # theta_end)
    /\ \A i \in 1..(Len(angles) \div 2) :
          /\ angles[2 * i - 1] = HalfOpenSample(i - 1)
          /\ (i <= Len(scan_thetas) => angles[2 * i - 1] = scan_thetas[i])
    /\ ScanOver /\ BackgroundCount > 0 => Len(scan_thetas) = resolution

(* ---------------------------------------------------------------------- *)
(* C8.  Whenever generate_polygon gets past the polygon construction,     *)
(* the divergence sequence has R entries and the polygon 2R vertices:     *)
(* vertices 2i and 2i+1 are at the i-th sampled angle theta_i and at      *)
(* theta_i + dtheta, and both carry the radius                            *)
(* d_i / (sin(dtheta/2) * R) divided by the number of foreground points,  *)
(* d_i being the divergence recorded for theta_i; in the scanning branch  *)
(* theta_i is the angle the scan visited, and the returned figure holds   *)
(* exactly these vertices.  Both branches.                                *)
(* ---------------------------------------------------------------------- *)
\* d / (sin(dtheta/2) * R) / foreground count, written out from the inputs
ExpectedRadius(d) ==
    FDiv(FDiv(d, FMul(NpSin(FDiv(FDiv(FSub(theta_bound[2], theta_bound[1]),
                                      Int2F(resolution)),
                                 Int2F(2))),
                      Int2F(resolution))),
         Int2F(Cardinality({k \in DOMAIN is_expressing : is_expressing[k]})))

C8_TwoVerticesPerAngle ==
    PolygonBuilt =>
        /\ Len(differences) = resolution
        /\ Len(angles) = 2 * resolution
        /\ Len(radii) = 2 * resolution
        /\ Len(scan_thetas) = (IF BackgroundCount = 0 THEN 0 ELSE resolution)
        /\ \A i \in 0..(resolution - 1) :
              /\ angles[2 * i + 1] =
                    Linspace(theta_bound[1], theta_bound[2], resolution, i)
              /\ (BackgroundCount > 0 => angles[2 * i + 1] = scan_thetas[i + 1])
              /\ angles[2 * i + 2] =
                    FAdd(angles[2 * i + 1],
                         FDiv(FSub(theta_bound[2], theta_bound[1]),
                              Int2F(resolution)))
              /\ radii[2 * i + 1] = ExpectedRadius(differences[i + 1])
              /\ radii[2 * i + 2] = ExpectedRadius(differences[i + 1])
        /\ Returned => result[1].r = radii /\ result[1].theta = angles

\* a returned polygon of the scanning branch with a finite non-zero radius
\* and at least two foreground points
C8_Witness ==
    /\ Returned
    /\ BackgroundCount > 0
    /\ ForegroundCount >= 2
    /\ \E k \in 1..Len(radii) : IsFinite(radii[k]) /\ radii[k] # Zero

(* ---------------------------------------------------------------------- *)
(* C9.  polygon_area is the sum over every pair of consecutive vertices   *)
(* (v_k, v_k+1), k = 0..2R-2, of                                          *)
(* 0.5 * (angle_k+1 - angle_k) * (r_k^2 + r_k+1^2): no pair with a        *)
(* non-zero angular span is left out.  Stated here for the returned       *)
(* polygons whose radii are all numbers.                                  *)
(* ---------------------------------------------------------------------- *)
\* the term of the pair (v_k, v_k+1), 1-based, of the returned polygon
PairTerm(k) ==
    FMul(FMul(Rat(1, 2), FSub(result[1].theta[k + 1], result[1].theta[k])),
         FAdd(FSq(result[1].r[k]), FSq(result[1].r[k + 1])))

AllPairsArea ==
    SumSeq(AsSeq([k \in 1..(Len(result[1].r) - 1) |-> PairTerm(k)]))

C9_AreaSumsEveryPair ==
    (Returned /\ \A k \in 1..Len(result[1].r) : IsFinite(result[1].r[k]))
        => result[1].polygon_area = AllPairsArea

(* ---------------------------------------------------------------------- *)
(* C10.  If foreground and background are the same multiset of            *)
(* coordinates and the point set is non-degenerate (its points are not    *)
(* all on one line), the divergence at every sampled angle is 0 and       *)
(* polygon_area is 0.                                                     *)
(* ---------------------------------------------------------------------- *)
Occurrences(pts, p) == Cardinality({k \in 1..Len(pts) : pts[k] = p})

Collinear(p, q, r) ==
    (q[1] - p[1]) * (r[2] - p[2]) = (q[2] - p[2]) * (r[1] - p[1])

TwoCopies ==
    /\ Aligned
    /\ \A p \in Points :
          Occurrences(Select(coordinates, is_expressing, TRUE), p)
              = Occurrences(Select(coordinates, is_expressing, FALSE), p)

NonDegenerate ==
    \E i, j, k \in 1..Len(coordinates) :
        ~Collinear(coordinates[i], coordinates[j], coordinates[k])

C10_IdenticalSetsZero ==
    (TwoCopies /\ NonDegenerate) =>
        /\ \A i \in 1..Len(differences) : differences[i] = Zero
        /\ Returned => result[1].polygon_area = Zero

(* ---------------------------------------------------------------------- *)
(* Two invocations: helpers.                                              *)
(* ---------------------------------------------------------------------- *)
\* a second invocation is under way or over
Second == earlier # <<>>

\* the second invocation's arguments are the first one's
SameArguments ==
    /\ coordinates = earlier[1].coordinates
    /\ is_expressing = earlier[1].is_expressing
    /\ theta_bound = earlier[1].theta_bound

\* the second invocation's coordinates are k times the first one's, k > 1
ScaledArguments ==
    /\ \E k \in 2..MaxScale : coordinates = Scale(k, earlier[1].coordinates)
    /\ is_expressing = earlier[1].is_expressing
    /\ theta_bound = earlier[1].theta_bound

\* the first invocation scanned [0, 2 pi], the second one [pi, 3 pi]
ShiftedArguments ==
    /\ coordinates = earlier[1].coordinates
    /\ is_expressing = earlier[1].is_expressing
    /\ earlier[1].theta_bound = <<Int2F(0), Int2F(2)>>
    /\ theta_bound = <<Int2F(1), Int2F(3)>>

\* s is an initial segment of t
IsPrefix(s, t) == Len(s) <= Len(t) /\ s = SubSeq(t, 1, Len(s))

Directions(thetas) == {ModTurn(thetas[i]) : i \in 1..Len(thetas)}

Count(seq, v) == Cardinality({i \in 1..Len(seq) : seq[i] = v})

SameMultiset(s, t) ==
    /\ Len(s) = Len(t)
    /\ \A i \in 1..Len(s) : Count(s, s[i]) = Count(t, s[i])

C12_RotatedBound ==
    ( /\ Second
      /\ ShiftedArguments
      /\ ForegroundCount >= 1
      /\ BackgroundCount >= 1
      /\ ScanOver
      /\ \A i \in 1..Len(differences) : IsFinite(differences[i]) )
    => /\ Directions(scan_thetas) = Directions(earlier[1].scan_thetas)
       /\ SameMultiset(differences, earlier[1].differences)

C14_MismatchRejected ==
    ~Aligned =>
        /\ pc \in {"start", "error"}
        /\ pc = "error" => raised = "IndexError"
        /\ scan_thetas = <<>>
        /\ differences = <<>>
        /\ angles = <<>>
        /\ radii = <<>>
        /\ polygon_area = Unbound
        /\ roundness = Unbound
        /\ result = <<>>

\* the call on a mismatched mask has raised
C14_Witness == ~Aligned /\ pc = "error" /\ Len(coordinates) >= 1

(* ---------------------------------------------------------------------- *)
(* Properties of the scan: helpers.                                       *)
(* ---------------------------------------------------------------------- *)
\* the two point sets, from the arguments
InputForeground == Select(coordinates, is_expressing, TRUE)
InputBackground == Select(coordinates, is_expressing, FALSE)

\* the scan loop has just completed an iteration: its locals are those of
\* the angle scan_thetas[Len(scan_thetas)]
JustScanned ==
    /\ pc \in {"scan", "build"}
    /\ angles = <<>>
    /\ Len(scan_thetas) >= 1

\* ... on two non-empty sets whose projections at that angle are not all
\* equal (max > min)
IterationDone ==
    /\ JustScanned
    /\ Aligned
    /\ ForegroundCount >= 1
    /\ BackgroundCount >= 1
    /\ FLt(Zero, NormDenom(scan_thetas[Len(scan_thetas)],
                            InputForeground, InputBackground))

\* the angle of the last iteration and the raw projections at it
LastTheta == scan_thetas[Len(scan_thetas)]
RawForeground == Projection(LastTheta, InputForeground)
RawBackground == Projection(LastTheta, InputBackground)
RawAll == RawForeground \o RawBackground
NormalizedAll == foreground_projection \o background_projection

InUnit(v) == FLe(Zero, v) /\ FLe(v, Int2F(1))

(* ---------------------------------------------------------------------- *)
(* C17.  The iterations of the scan are independent: entry i of the       *)
(* divergence sequence is the divergence of angle theta_i, a function of  *)
(* that angle and of the two input point sets alone (so the order of      *)
(* evaluation cannot matter); an entry, once recorded, is never changed   *)
(* by a later iteration; and no step changes the coordinates, the mask or *)
(* theta_bound.                                                           *)
(* ---------------------------------------------------------------------- *)
\* the entry an iteration has just recorded is the divergence of its angle
EntryOfItsAngle ==
    (JustScanned /\ Aligned /\ ForegroundCount >= 1 /\ BackgroundCount >= 1)
    => /\ Len(differences) = Len(scan_thetas)
       /\ foreground_coordinates = InputForeground
       /\ background_coordinates = InputBackground
       /\ scan_thetas[Len(scan_thetas)] =
             Linspace(theta_bound[1], theta_bound[2], resolution,
                      Len(scan_thetas) - 1)
       /\ differences[Len(differences)] =
             Difference(Linspace(theta_bound[1], theta_bound[2], resolution,
                                 Len(scan_thetas) - 1),
                        InputForeground, InputBackground)

\* a step keeps the arguments and every entry recorded so far
EntriesKept ==
    /\ inputs' = inputs
    /\ IsPrefix(differences, differences')
    /\ IsPrefix(scan_thetas, scan_thetas')

JointlyNormalized(raw, norm, lo, hi) ==
    /\ Len(norm) = Len(raw)
    /\ \A k \in 1..Len(norm) : InUnit(norm[k])
    /\ \A k \in 1..Len(raw) :
          /\ raw[k] = lo => norm[k] = Zero
          /\ raw[k] = hi => norm[k] = Int2F(1)
    /\ \A j, k \in 1..Len(raw) :
          /\ FLe(raw[j], raw[k]) <=> FLe(norm[j], norm[k])
          /\ FMul(FSub(norm[j], norm[k]), FSub(hi, lo)) = FSub(raw[j], raw[k])

C19_JointNormalization ==
    IterationDone =>
        /\ Len(foreground_projection) = Len(InputForeground)
        /\ Len(background_projection) = Len(InputBackground)
        /\ \A raw \in {RawAll} :
              JointlyNormalized(raw, NormalizedAll, MinSeq(raw), MaxSeq(raw))

\* an iteration whose smallest projection is a background point's and not 0,
\* with a foreground value strictly inside (0, 1)
C19_Witness ==
    /\ IterationDone
    /\ MinSeq(RawAll) # Zero
    /\ FLt(MinSeq(RawBackground), MinSeq(RawForeground))
    /\ \E k \in 1..Len(foreground_projection) :
          /\ FLt(Zero, foreground_projection[k])
          /\ FLt(foreground_projection[k], Int2F(1))

(* ---------------------------------------------------------------------- *)
(* C20.  At every sampled angle with non-empty foreground and background  *)
(* and max > min, each normalised CDF is a non-decreasing sequence of R   *)
(* values in [0, 1] ending in exactly 1, and every point of each set is   *)
(* counted in some bin: the final cumulative count of a set is its number *)
(* of points, never 0.                                                    *)
(* ---------------------------------------------------------------------- *)
IsCdf(cdf) ==
    /\ Len(cdf) = resolution
    /\ \A b \in 1..Len(cdf) : InUnit(cdf[b])
    /\ \A b \in 1..(Len(cdf) - 1) : FLe(cdf[b], cdf[b + 1])
    /\ cdf[Len(cdf)] = Int2F(1)

C20_CdfEndsAtOne ==
    IterationDone =>
        /\ IsCdf(foreground_cdf)
        /\ IsCdf(background_cdf)
        /\ Len(foreground_hist_values) = resolution
        /\ Len(background_hist_values) = resolution
        /\ SumInts(foreground_hist_values, resolution) = ForegroundCount
        /\ SumInts(background_hist_values, resolution) = BackgroundCount
        /\ SumInts(foreground_hist_values, resolution) # 0
        /\ SumInts(background_hist_values, resolution) # 0

\* an iteration after which a CDF has a value strictly between 0 and 1 and
\* the largest projection belongs to one set only
C20_Witness ==
    /\ IterationDone
    /\ \E b \in 1..Len(foreground_cdf) :
          FLt(Zero, foreground_cdf[b]) /\ FLt(foreground_cdf[b], Int2F(1))
    /\ FLt(MaxSeq(RawBackground), MaxSeq(RawForeground))


(* ------------------------- generate_tsne: claims ---------------------- *)

\* generate_tsne has returned
TsneReturned == tsne_call.pc = "done"

\* the returned pair
TsneResult == tsne_call.result[1]

\* generate_tsne has returned a mask (and so coordinates with it)
ReturnedMask == TsneReturned /\ TsneResult.is_expressing # None

\* the marker gene of the call is a row of the table
MarkerPresent ==
    /\ Truthy(tsne_call.marker_gene)
    /\ InIndex(tsne_call.marker_gene[1], dge_data[1])

\* the rows of tsne_coordinates that were returned, by their position
ReturnedPositions ==
    IF tsne_call.target_cluster = None
    THEN [i \in 1..Len(tsne_coordinates[1]) |-> TRUE]
    ELSE [i \in 1..Len(cluster_labels[1]) |->
             cluster_labels[1][i] = tsne_call.target_cluster[1]]

\* what the mask says of the returned points: for a marker gene whether the
\* cell expresses it, for a target cluster alone whether it is in the cluster
Describes ==
    IF MarkerPresent
    THEN Take([i \in 1..dge_data[1].cells |->
                  GeneExpression(tsne_call.marker_gene[1], dge_data[1])[i] > 0],
              ReturnedPositions)
    ELSE Take(ReturnedPositions, ReturnedPositions)

\* C15: whenever generate_tsne returns a mask, in any of its three branches,
\* the mask has one entry per returned coordinate row and entry j says of
\* returned point j whether it is a foreground point.
C15_MaskAligned ==
    ReturnedMask =>
        /\ Len(TsneResult.is_expressing[1]) = Len(TsneResult.coordinates[1])
        /\ TsneResult.is_expressing[1] = Describes

\* C16: whenever generate_tsne returns a mask for a marker gene that is a
\* row of the table, with or without a target cluster, the mask has at
\* least one true entry.
C16_AtLeastOneForeground ==
    (ReturnedMask /\ MarkerPresent) =>
        \E j \in 1..Len(TsneResult.is_expressing[1]) :
            TsneResult.is_expressing[1][j]


(* ------------------------ PAGER.run_pager: claims --------------------- *)

\* the supported parameters as the docstring of run_pager lists them
\* (pager.py:23-33), each with its documented default, the payload field
\* that carries it and how the field carries it
Documented ==
    << [name |-> source_key, default |-> ListV(all_sources),
        field |-> "source", as |-> "joined"],
       [name |-> type_key, default |-> StrV("All"),
        field |-> "type", as |-> "value"],
       [name |-> min_size_key, default |-> IntV(1),
        field |-> "ge", as |-> "value"],
       [name |-> max_size_key, default |-> IntV(2000),
        field |-> "le", as |-> "value"],
       [name |-> similarity_key, default |-> IntV(0),
        field |-> "sim", as |-> "text"],
       [name |-> overlap_key, default |-> StrV("1"),
        field |-> "olap", as |-> "text"],
       [name |-> organism_key, default |-> StrV("All"),
        field |-> "organism", as |-> "value"],
       [name |-> n_coco_key, default |-> StrV("0"),
        field |-> "cohesion", as |-> "text"],
       [name |-> p_value_key, default |-> FloatV([n |-> 1, d |-> 20]),
        field |-> "pvalue", as |-> "value"],
       [name |-> fdr_key, default |-> FloatV([n |-> 1, d |-> 20]),
        field |-> "FDR", as |-> "value"] >>

\* two keywords that differ in letter case at most
SameName(a, b) ==
    /\ Len(a) = Len(b)
    /\ \A i \in 1..Len(a) : LowerChar(a[i]) = LowerChar(b[i])

\* the keyword is a supported parameter in some letter case
Supported(k) == \E i \in 1..Len(Documented) : SameName(k, Documented[i].name)

\* the payload field of a value: the value, its text, or its names joined
Carried(how, x) ==
    IF how = "joined" THEN StrV(Join("%20", x.v))
    ELSE IF how = "text" THEN PyStr(x)
    ELSE x

\* run_pager has built its payload
PayloadBuilt == pager_call.pc \in {"post", "done"}

\* C18: the payload of run_pager carries, for each supported parameter, the
\* value of a keyword the caller passed under that name in any letter case,
\* and the documented default when no such keyword was passed; its gene
\* field is the gene list, whatever other keywords were passed.
C18_PayloadFromDefaultsAndKwargs ==
    PayloadBuilt =>
        LET payload == pager_call.params[1]
            kwargs == pager_call.kwargs
        IN  /\ payload.genes = StrV(Join("%20", pager_call.genes))
            /\ \A i \in 1..Len(Documented) :
                  LET p == Documented[i]
                      passed == {j \in 1..Len(kwargs) :
                                    SameName(kwargs[j].key, p.name)}
                  IN  IF passed = {}
                      THEN payload[p.field] = Carried(p.as, p.default)
                      ELSE \E j \in passed :
                              payload[p.field] = Carried(p.as, kwargs[j].value)

\* a payload built from a keyword in capitals that overrides a default
\* together with a keyword that is not a supported parameter
C18_Witness ==
    /\ PayloadBuilt
    /\ \E j \in 1..Len(pager_call.kwargs) :
          /\ pager_call.kwargs[j].key # Lower(pager_call.kwargs[j].key)
          /\ \E i \in 1..Len(Documented) :
                /\ SameName(pager_call.kwargs[j].key, Documented[i].name)
                /\ Carried(Documented[i].as, pager_call.kwargs[j].value)
                       # Carried(Documented[i].as, Documented[i].default)
                /\ pager_call.params[1][Documented[i].field] =
                       Carried(Documented[i].as, pager_call.kwargs[j].value)
    /\ \E j \in 1..Len(pager_call.kwargs) : ~Supported(pager_call.kwargs[j].key)


(* ---------------------------------------------------------------------- *)
(* C21.  The vertex sequence is a contiguous stair-step over exactly the  *)
(* scanned range: the angles never decrease along the sequence, the       *)
(* second vertex of wedge i is at the angle of the first vertex of wedge  *)
(* i+1, the first vertex is at theta_start and the last at theta_end, and *)
(* no vertex angle lies outside [theta_start, theta_end].  Stated here    *)
(* for theta_start < theta_end.                                           *)
(* ---------------------------------------------------------------------- *)
C21_ContiguousStairStep ==
    (PolygonBuilt /\ FLt(theta_start, theta_end)) =>
        /\ \A k \in 1..(Len(angles) - 1) : FLe(angles[k], angles[k + 1])
        /\ \A i \in 1..(resolution - 1) : angles[2 * i] = angles[2 * i + 1]
        /\ angles[1] = theta_start
        /\ angles[Len(angles)] = theta_end
        /\ \A k \in 1..Len(angles) :
              FLe(theta_start, angles[k]) /\ FLe(angles[k], theta_end)


(* ---------------------------------------------------------------------- *)
(* C22.  Every entry of the divergence sequence recorded at an angle with *)
(* non-empty foreground and background and max > min lies in [0, R - 1]:  *)
(* each of the R terms |foreground CDF - background CDF| lies in [0, 1]   *)
(* and the term of the last bin is 0.                                     *)
(* ---------------------------------------------------------------------- *)
\* the b-th term of the sum, from the two CDFs of the last iteration
CdfGap(b) == FAbs(FSub(foreground_cdf[b], background_cdf[b]))

C22_DivergenceBounded ==
    IterationDone =>
        /\ Len(differences) = Len(scan_thetas)
        /\ FLe(Zero, differences[Len(differences)])
        /\ FLe(differences[Len(differences)], Int2F(resolution - 1))
        /\ \A b \in 1..resolution : InUnit(CdfGap(b))
        /\ CdfGap(resolution) = Zero

\* an iteration whose divergence is the bound R - 1 itself, after one whose
\* divergence lies strictly between 0 and R - 1
C22_Witness ==
    /\ IterationDone
    /\ differences[Len(differences)] = Int2F(resolution - 1)
    /\ \E k \in 1..(Len(differences) - 1) :
          /\ FLt(Zero, differences[k])
          /\ FLt(differences[k], Int2F(resolution - 1))


(* ---------------------------------------------------------------------- *)
(* C23.  After clustering in generate_tsne every cell that DBSCAN marked  *)
(* as noise has the label -1 and every clustered cell a label >= 1, two   *)
(* cells having the same label exactly when DBSCAN put them together; so  *)
(* no cluster has the label -1 or 0, and the cells selected by a target   *)
(* cluster id >= 1 are never noise cells.                                 *)
(* ---------------------------------------------------------------------- *)
\* generate_tsne is past its clustering
Clustered == tsne_call.pc \in {"select", "return", "done", "error"}

\* the cells that selecting by the target cluster id picks
Selected ==
    {i \in 1..Len(cluster_labels[1]) :
        cluster_labels[1][i] = tsne_call.target_cluster[1]}

C23_NoiseLabelledApart ==
    Clustered =>
        LET raw == tsne_call.fit_predict[1]
            labels == cluster_labels[1]
        IN  /\ Len(labels) = Len(raw)
            /\ \A i \in 1..Len(raw) :
                  /\ raw[i] = -1 => labels[i] = -1
                  /\ raw[i] # -1 => labels[i] >= 1
                  /\ \A j \in 1..Len(raw) :
                        (raw[i] = raw[j]) <=> (labels[i] = labels[j])
            /\ (tsne_call.target_cluster # None
                /\ tsne_call.target_cluster[1] >= 1) =>
                  /\ \A i \in Selected : raw[i] # -1
                  /\ (tsne_call.pc = "return" /\ MarkerPresent) =>
                        Len(tsne_call.filtered_tsne_coordinates[1])
                            = Cardinality(Selected)

\* a clustering with a noise cell and a clustered cell, and a call that has
\* selected the clustered cell by its cluster id
C23_Witness ==
    /\ tsne_call.pc = "done"
    /\ tsne_call.target_cluster # None
    /\ \E i, j \in 1..Len(cluster_labels[1]) :
          /\ tsne_call.fit_predict[1][i] = -1
          /\ tsne_call.fit_predict[1][j] = 0
          /\ Selected = {j}
    /\ tsne_call.result[1].coordinates # None
    /\ Len(tsne_call.result[1].coordinates[1]) = 1


(* ---------------------------------------------------------------------- *)
(* C24.  The call chain of one analysis is interface-consistent: no       *)
(* request to update_plots, download, get_genes or the simulator's        *)
(* update_plots ends in the TypeError of a keyword the callee does not    *)
(* declare or in the ValueError of unpacking another number of values     *)
(* than the callee returns, and gene_analysis, when it returns, returns   *)
(* the two values its docstring states (tsne_fig, rsp_fig).               *)
(* ---------------------------------------------------------------------- *)
C24_InterfaceConsistent ==
    /\ chain.raised \notin {"TypeError: unexpected keyword argument",
                             "ValueError: values to unpack"}
    /\ \A i \in 1..Len(chain.stack) :
          (/\ chain.stack[i].fn = "gene_analysis"
           /\ chain.stack[i].at > Len(Programs.gene_analysis))
             => Signatures.gene_analysis.returns = 2

====
